---- MODULE Spec2Model ----
(***************************************************************************)
(* ScapSrc, the scap screen-capture source element (src/src/scapsrc/imp.rs) *)
(* as a state machine.  The element's fields are the three mutex-guarded   *)
(* values settings, capturer and state.  The host (the base source class   *)
(* and the pipeline) drives the entry points: change_state with start and  *)
(* stop below it, create, set_caps, query and the property setters.  The   *)
(* capture backend is an environment: it hands out frames and may fail.    *)
(*                                                                         *)
(* start, stop, create and the Paused->Playing arm of change_state each    *)
(* hold the capturer mutex from their first statement to their return, so  *)
(* each of them is one step where the host serialises its calls.  The      *)
(* T actions take the same entry points statement by statement, for two    *)
(* threads and the three mutexes.                                          *)
(*                                                                         *)
(* Optional values (Rust Option) are sequences of length at most one:      *)
(* None is << >> and Some(x) is << x >>.                                    *)
(***************************************************************************)
EXTENDS Integers, Sequences, FiniteSets, TLC

(* ------------------------------------------------------------------ *)
(* Bounds of the model                                                  *)
(* ------------------------------------------------------------------ *)

\* Frame widths and heights are 1..MaxDim.
MaxDim == 2

\* Backend capture timestamps (display_time) are 0..MaxPts.
MaxPts == 2

\* Calls the element makes on one Capturer before the host stops asking for
\* Paused -> Playing again (the log of a Capturer: build, start, ..., stop).
MaxCalls == 3

(* ------------------------------------------------------------------ *)
(* Program constants                                                    *)
(* ------------------------------------------------------------------ *)

DEFAULT_FPS == 25

DEFAULT_SHOW_CURSOR == TRUE

DEFAULT_PERFORM_INTERNAL_PREROLL == FALSE

\* The other frame rate a caller sets in the model (any uint >= 1 is legal).
OtherFps == 30

FpsValues == {DEFAULT_FPS, OtherFps}

\* u64 arithmetic, scaled to the model's timestamps: every difference of two
\* capture timestamps is below WordModulus / 2, so a wrapped subtraction lands
\* above every honest output timestamp, as it does with 2^64.
WordModulus == 2 * (MaxPts + 1)

None == << >>

Some(x) == << x >>

(* ------------------------------------------------------------------ *)
(* Frames and formats                                                   *)
(* ------------------------------------------------------------------ *)

\* scap::frame::Frame variants: the six the element translates, and YUVFrame.
SupportedTags == {"RGB", "RGBx", "XBGR", "BGRx", "BGR0", "BGRA"}

PixelTags == SupportedTags \cup {"YUVFrame"}

Dims == 1..MaxDim

Frames == [tag : PixelTags, width : Dims, height : Dims, display_time : 0..MaxPts]

\* gst_video::VideoFormat values the element uses.
VideoFormats == {"Rgb", "Rgbx", "Xbgr", "Bgrx", "Bgra"}

\* FrameInfo::new: the match over the frame's variant; BGR0 and BGRx both give
\* VideoFormat::Bgrx, any other variant gives None.
FrameInfoNew(frame) ==
    LET frame_info(fmt) == Some([width |-> frame.width, height |-> frame.height,
                                 gst_v_format |-> fmt, pts |-> frame.display_time])
    IN CASE frame.tag = "RGB"  -> frame_info("Rgb")
         [] frame.tag = "RGBx" -> frame_info("Rgbx")
         [] frame.tag = "XBGR" -> frame_info("Xbgr")
         [] frame.tag = "BGRx" -> frame_info("Bgrx")
         [] frame.tag = "BGR0" -> frame_info("Bgrx")
         [] frame.tag = "BGRA" -> frame_info("Bgra")
         [] OTHER -> None

\* gst_video::VideoInfo::builder(format, width, height).build(): fails for a
\* width or height that is not positive.
VideoInfoBuild(fmt, w, h) ==
    IF w <= 0 \/ h <= 0 THEN None
    ELSE Some([format |-> fmt, width |-> w, height |-> h])

\* The caps string of a video format ("format" field of video/x-raw caps).
FormatToString(fmt) ==
    CASE fmt = "Rgb"  -> "RGB"
      [] fmt = "Rgbx" -> "RGBx"
      [] fmt = "Xbgr" -> "xBGR"
      [] fmt = "Bgrx" -> "BGRx"
      [] fmt = "Bgra" -> "BGRA"

\* VideoInfo::to_caps.
ToCaps(info) ==
    [media |-> "video/x-raw", format |-> FormatToString(info.format),
     width |-> info.width, height |-> info.height]

\* VideoInfo::from_caps: None for caps that name no known format.
FromCaps(caps) ==
    LET fmts == {f \in VideoFormats : FormatToString(f) = caps.format}
    IN IF caps.media # "video/x-raw" \/ fmts = {} THEN None
       ELSE Some([format |-> CHOOSE f \in fmts : TRUE,
                  width |-> caps.width, height |-> caps.height])

\* The caps of the src pad template: the listed formats, any size.
TemplateCaps ==
    {ToCaps([format |-> f, width |-> w, height |-> h]) :
        f \in {"Rgb", "Rgbx", "Xbgr", "Bgrx", "Bgrx", "Bgra"}, w \in Dims, h \in Dims}

(* ------------------------------------------------------------------ *)
(* State                                                                *)
(* ------------------------------------------------------------------ *)

VARIABLES
    settings,        \* Mutex<Settings>: show_cursor, fps, perform_internal_preroll
    capturer,        \* Mutex<Option<Capturer>>: None, or Some(Capturer)
    state,           \* Mutex<State>: info, width, height, base_time
    blocksize,       \* the base class's blocksize as set_caps last set it
    lifecycle,       \* the element's GstState: Null, Ready, Paused, Playing
    panicked,        \* a panic has unwound out of an entry point
    clock,           \* the capture timestamp the newest Capturer delivered last
    last,            \* history: the last entry-point call and its outcome
    cycle,           \* history: what was pulled and produced since the last start
    threads          \* per thread: where it is in a call, and the mutexes it holds

vars == <<settings, capturer, state, blocksize, lifecycle, panicked,
          clock, last, cycle, threads>>

\* impl Default for Settings.
SettingsDefault ==
    [show_cursor |-> DEFAULT_SHOW_CURSOR, fps |-> DEFAULT_FPS,
     perform_internal_preroll |-> DEFAULT_PERFORM_INTERNAL_PREROLL]

\* #[derive(Default)] struct State.
StateDefault == [info |-> None, width |-> 0, height |-> 0, base_time |-> 0]

\* The pixel layout the spec gives a backend tag (4.2): the supported tags map
\* one to one, BGR0 aliases onto BGRX; no layout for any other tag.
Layout(tag) ==
    CASE tag = "RGB"  -> Some("RGB24")
      [] tag = "RGBx" -> Some("RGBX")
      [] tag = "XBGR" -> Some("XBGR")
      [] tag \in {"BGRx", "BGR0"} -> Some("BGRX")
      [] tag = "BGRA" -> Some("BGRA")
      [] OTHER -> None

\* The (layout, width, height) a negotiated format stands for.
Negotiated(info) ==
    <<CASE info.format = "Rgb"  -> "RGB24"
        [] info.format = "Rgbx" -> "RGBX"
        [] info.format = "Xbgr" -> "XBGR"
        [] info.format = "Bgrx" -> "BGRX"
        [] info.format = "Bgra" -> "BGRA",
      info.width, info.height>>

\* The (layout, width, height) a frame with a layout shows.
Observed(frame) == <<Layout(frame.tag)[1], frame.width, frame.height>>

\* The frame has a layout and its (layout, width, height) is the negotiated one.
Matches(st, frame) ==
    /\ st.info # None
    /\ Layout(frame.tag) # None
    /\ Negotiated(st.info[1]) = Observed(frame)

\* The (layout, width, height) a capability description names.
Described(caps) ==
    <<CASE caps.format = "RGB"  -> "RGB24"
        [] caps.format = "RGBx" -> "RGBX"
        [] caps.format = "xBGR" -> "XBGR"
        [] caps.format = "BGRx" -> "BGRX"
        [] caps.format = "BGRA" -> "BGRA",
      caps.width, caps.height>>

\* The record of a call: what it was given (the frame pulled, the consumer's
\* answer, whether a Capturer and a negotiated format were there and whether
\* the frame matched it) and what it gave back (result, element error posted,
\* caps proposed to the consumer and whether it took them, Capturers dropped,
\* output timestamp).  prev is the output timestamp of the buffer before it in
\* the same start cycle; prop is the property a set_property or property call
\* named, with the value it was given or gave back.
NoCall ==
    [op |-> "none", res |-> "none", msg |-> "none", frame |-> None,
     proposals |-> << >>, accepted |-> TRUE, had_capturer |-> FALSE,
     had_info |-> FALSE, matched |-> FALSE, dropped |-> << >>, out |-> None,
     prev |-> None, prop |-> None]

\* Why a create call failed, in the spec's kinds (7), read off its record.
Cause(call) ==
    IF call.op # "create" \/ call.res = "Ok" THEN "none"
    ELSE IF ~call.had_capturer THEN "MissingBackend"
    ELSE IF call.frame = None THEN "BackendReadError"
    ELSE IF Layout(call.frame[1].tag) = None THEN "UnsupportedFormatError"
    ELSE IF call.proposals # << >> /\ ~call.accepted THEN "NegotiationError"
    ELSE "other"

\* The history of one start cycle: the capture timestamps pulled in it, the
\* output timestamp of the last buffer produced in it, and the frame its
\* preroll pulled, kept until create, set_caps or stop is called.
NoCycle == [pulled |-> {}, cur |-> None, preroll |-> None]

\* The host's threads: the one that changes state, sets properties and
\* queries, and the streaming thread, which calls create.
Threads == {"app", "stream"}

\* A thread outside every call: no mutex held, no frame and no Capturer in
\* hand.  held lists the mutexes the thread holds in the order it locked them;
\* ret is the pc a query made from inside another call returns to.
Idle ==
    [pc |-> "idle", held |-> << >>, frame |-> None, new_capturer |-> None,
     ret |-> "idle"]

Init ==
    /\ threads = [t \in Threads |-> Idle]
    /\ settings = SettingsDefault
    /\ capturer = None
    /\ state = StateDefault
    /\ blocksize = None
    /\ lifecycle = "Null"
    /\ panicked = FALSE
    /\ clock = 0
    /\ last = NoCall
    /\ cycle = NoCycle

(* ------------------------------------------------------------------ *)
(* The capture backend (scap::capturer::Capturer), as the element sees  *)
(* it                                                                   *)
(* ------------------------------------------------------------------ *)

\* Capturer::build(Options { fps, show_cursor, .. }): a new Capturer, with the
\* options it was built with and the log of the calls made on it.
BackendBuild(set) ==
    [calls |-> <<"build">>, fps |-> set.fps, show_cursor |-> set.show_cursor]

\* start_capture / stop_capture on Capturer c.
BackendCall(c, call) ==
    [c EXCEPT !.calls = Append(@, call)]

\* The engine of c runs: start_capture was called and stop_capture not.
Running(c) ==
    /\ \E i \in 1..Len(c.calls) : c.calls[i] = "start"
    /\ \A i \in 1..Len(c.calls) : c.calls[i] # "stop"

\* What get_next_frame can return, out of the frames F: Err (None), or a frame
\* whose capture timestamp is not before the last one this backend delivered.
NextFrames(F, t) ==
    {None} \cup {Some(f) : f \in {g \in F : g.display_time >= t}}

(* ------------------------------------------------------------------ *)
(* The element's methods, as functions of the fields they read and      *)
(* write                                                                *)
(* ------------------------------------------------------------------ *)

\* set_caps as it would be if it stored the size and forgot the info.
set_caps_size_only(st, blk, caps) ==
    LET info == FromCaps(caps)
    IN IF info = None
       THEN [state |-> st, blocksize |-> blk, ok |-> FALSE]
       ELSE [state |-> [st EXCEPT !.width = info[1].width,
                                  !.height = info[1].height],
             blocksize |-> Some(4 * info[1].width * info[1].height),
             ok |-> TRUE]

\* BaseSrcImpl::set_caps: parse the caps, set the blocksize, store the info and
\* its size in state.  Caps that do not parse leave everything as it was.
set_caps(st, blk, caps) ==
    LET info == FromCaps(caps)
    IN IF info = None
       THEN [state |-> st, blocksize |-> blk, ok |-> FALSE]
       ELSE [state |-> [st EXCEPT !.info = Some(info[1]),
                                  !.width = info[1].width,
                                  !.height = info[1].height],
             blocksize |-> Some(4 * info[1].width * info[1].height),
             ok |-> TRUE]

\* self.obj().set_caps as it would be if the caps went to the consumer
\* without the element's own set_caps being run.
obj_set_caps_without_set(st, blk, caps, accept) ==
    [state |-> st, blocksize |-> blk, ok |-> FromCaps(caps) # None /\ accept]

\* self.obj().set_caps(&caps): the base class hands the caps to set_caps above
\* and, when that succeeds, sends them to the consumer, whose answer is accept.
obj_set_caps(st, blk, caps, accept) ==
    LET r == set_caps(st, blk, caps)
    IN [state |-> r.state, blocksize |-> r.blocksize, ok |-> r.ok /\ accept]

\* The comparison as it would be if it left the height out.
FormatDiffersWidthOnly(st, frame_info) ==
    \/ st.width # frame_info.width
    \/ st.info[1].format # frame_info.gst_v_format

\* The comparison of ensure_correct_format: the frame's size against
\* state.width and state.height, its format against info.format().
FormatDiffers(st, frame_info) ==
    \/ <<st.width, st.height>> # <<frame_info.width, frame_info.height>>
    \/ st.info[1].format # frame_info.gst_v_format

\* ensure_correct_format as it would be if an absent info counted as a
\* difference: the frame's caps are proposed.
ensure_correct_format_absent_differs(st, blk, frame_info, accept) ==
    IF st.info = None \/ FormatDiffers(st, frame_info)
    THEN LET new_caps == ToCaps(VideoInfoBuild(frame_info.gst_v_format,
                                    frame_info.width, frame_info.height)[1])
             r == obj_set_caps(st, blk, new_caps, accept)
         IN [state |-> r.state, blocksize |-> r.blocksize,
             res |-> IF r.ok THEN "Ok" ELSE "Error", proposals |-> <<new_caps>>]
    ELSE [state |-> st, blocksize |-> blk, res |-> "Ok", proposals |-> << >>]

\* ScapSrc::ensure_correct_format.
ensure_correct_format(st, blk, frame_info, accept) ==
    IF st.info = None
    THEN [state |-> st, blocksize |-> blk, res |-> "NotNegotiated", proposals |-> << >>]
    ELSE IF FormatDiffers(st, frame_info)
    THEN LET new_video_info == VideoInfoBuild(frame_info.gst_v_format,
                                              frame_info.width, frame_info.height)
         IN IF new_video_info = None
            THEN [state |-> st, blocksize |-> blk, res |-> "Error", proposals |-> << >>]
            ELSE LET new_caps == ToCaps(new_video_info[1])
                     r == obj_set_caps(st, blk, new_caps, accept)
                 IN [state |-> r.state, blocksize |-> r.blocksize,
                     res |-> IF r.ok THEN "Ok" ELSE "Error",
                     proposals |-> <<new_caps>>]
    ELSE [state |-> st, blocksize |-> blk, res |-> "Ok", proposals |-> << >>]

\* The tail of create: the baseline and the output timestamp.  base_time = 0
\* stands for "not set"; the subtraction is a u64 subtraction, which panics in
\* a build with overflow checks and wraps in one without.
Stamp(st, frame_info, checks) ==
    LET base == IF st.base_time = 0 THEN frame_info.pts ELSE st.base_time
        st1 == [st EXCEPT !.base_time = base]
    IN IF frame_info.pts < base /\ checks
       THEN [state |-> st1, out |-> None, panic |-> TRUE]
       ELSE [state |-> st1, out |-> Some((frame_info.pts - base) % WordModulus),
             panic |-> FALSE]

\* PushSrcImpl::create.  got is what get_next_frame returned, accept the
\* consumer's answer to a format proposal.  msg is the element error posted.
create(cap, st, blk, checks, got, accept) ==
    LET fail(flow, m, s, b, props) ==
            [state |-> s, blocksize |-> b, res |-> flow, msg |-> m,
             proposals |-> props, out |-> None, panic |-> FALSE]
    IN IF cap = None THEN fail("NotNegotiated", "none", st, blk, << >>)
       ELSE IF got = None THEN fail("Error", "ResourceError::Read", st, blk, << >>)
       ELSE LET frame_info == FrameInfoNew(got[1])
            IN IF frame_info = None
               THEN fail("Error", "ResourceError::Failed", st, blk, << >>)
               ELSE LET e == ensure_correct_format(st, blk, frame_info[1], accept)
                    IN IF e.res # "Ok"
                       THEN fail(e.res, "none", e.state, e.blocksize, e.proposals)
                       ELSE LET t == Stamp(e.state, frame_info[1], checks)
                            IN [state |-> t.state, blocksize |-> e.blocksize,
                                res |-> IF t.panic THEN "Panic" ELSE "Ok",
                                msg |-> "none", proposals |-> e.proposals,
                                out |-> t.out, panic |-> t.panic]

\* The internal preroll of start, on new_capturer: start the engine, pull one
\* frame, translate it (unwrap), build its info, propose its caps (unwrap) and
\* record its capture timestamp as the baseline.  A panic or an early return
\* drops new_capturer as it is; the mutex keeps the None that take left.
Preroll(st, blk, built, got, accept) ==
    LET new_capturer == BackendCall(built, "start")
        fail(s, b, r, props) ==
            [capturer |-> None, dropped |-> <<new_capturer>>, state |-> s,
             blocksize |-> b, res |-> r, proposals |-> props, panic |-> r = "Panic"]
    IN IF got = None THEN fail(st, blk, "InitError", << >>)
       ELSE LET frame_info == FrameInfoNew(got[1])
            IN IF frame_info = None
               THEN fail(st, blk, "Panic", << >>)
               ELSE LET video_info == VideoInfoBuild(frame_info[1].gst_v_format,
                                          frame_info[1].width, frame_info[1].height)
                    IN IF video_info = None
                       THEN fail(st, blk, "InitError", << >>)
                       ELSE LET caps == ToCaps(video_info[1])
                                r == obj_set_caps(st, blk, caps, accept)
                            IN IF ~r.ok
                               THEN fail(r.state, r.blocksize, "Panic", <<caps>>)
                               ELSE [capturer |-> Some(new_capturer),
                                     dropped |-> << >>,
                                     state |-> [r.state EXCEPT
                                                  !.base_time = frame_info[1].pts],
                                     blocksize |-> r.blocksize, res |-> "Ok",
                                     proposals |-> <<caps>>, panic |-> FALSE]

\* BaseSrcImpl::start.  build_ok says whether Capturer::build succeeds.  A
\* Capturer found in the mutex is taken out, stopped and dropped first.
start(cap, set, st, blk, build_ok, got, accept) ==
    LET old == IF cap # None THEN <<BackendCall(cap[1], "stop")>> ELSE << >>
    IN IF ~build_ok
       THEN [capturer |-> None, dropped |-> old, state |-> st, blocksize |-> blk,
             res |-> "InitError", proposals |-> << >>, panic |-> FALSE]
       ELSE IF set.perform_internal_preroll
       THEN LET r == Preroll(st, blk, BackendBuild(set), got, accept)
            IN [r EXCEPT !.dropped = old \o @]
       ELSE [capturer |-> Some(BackendBuild(set)), dropped |-> old, state |-> st,
             blocksize |-> blk, res |-> "Ok", proposals |-> << >>, panic |-> FALSE]

\* stop as it would be if it looked at the Capturer without taking it.
stop_without_take(cap) ==
    IF cap # None
    THEN [capturer |-> cap, dropped |-> << >>, res |-> "Ok"]
    ELSE [capturer |-> cap, dropped |-> << >>, res |-> "ShutdownError"]

\* stop as it would be if it dropped the Capturer without stop_capture.
stop_without_stop_capture(cap) ==
    IF cap # None
    THEN [capturer |-> None, dropped |-> <<cap[1]>>, res |-> "Ok"]
    ELSE [capturer |-> None, dropped |-> << >>, res |-> "ShutdownError"]

\* BaseSrcImpl::stop: take the Capturer out of the mutex, stop it, drop it.
stop(cap) ==
    IF cap # None
    THEN [capturer |-> None, dropped |-> <<BackendCall(cap[1], "stop")>>, res |-> "Ok"]
    ELSE [capturer |-> None, dropped |-> << >>, res |-> "ShutdownError"]

\* The PausedToPlaying arm of change_state.
start_capture(cap) ==
    IF cap # None
    THEN [capturer |-> Some(BackendCall(cap[1], "start")), res |-> "Ok"]
    ELSE [capturer |-> cap, res |-> "StateChangeError"]

\* BaseSrcImpl::query for a caps query: with perform_internal_preroll set, the
\* caps of state.info, or false ("unknown") without one; otherwise the query is
\* left to the base class.
query(set, st) ==
    IF set.perform_internal_preroll
    THEN IF st.info # None
         THEN [kind |-> "caps", caps |-> Some(ToCaps(st.info[1]))]
         ELSE [kind |-> "unknown", caps |-> None]
    ELSE [kind |-> "parent", caps |-> None]

(* ------------------------------------------------------------------ *)
(* Entry points, as the host calls them.  F is the set of frames the    *)
(* backend can deliver, C the set of caps the host's negotiation can    *)
(* fix.                                                                 *)
(* ------------------------------------------------------------------ *)

Call(op, res, msg, frame, proposals) ==
    [op |-> op, res |-> res, msg |-> msg, frame |-> frame,
     proposals |-> proposals, had_capturer |-> capturer # None,
     had_info |-> state.info # None,
     matched |-> frame # None /\ Matches(state, frame[1]),
     accepted |-> TRUE, dropped |-> << >>, out |-> None, prev |-> None,
     prop |-> None]

\* The names of the element's properties.
PropertyNames == {"fps", "show-cursor", "perform-internal-preroll"}

\* property as it would be with the two boolean arms reading each other's
\* field.
property_swapped(set, name) ==
    CASE name = "fps" -> set.fps
      [] name = "show-cursor" -> set.perform_internal_preroll
      [] name = "perform-internal-preroll" -> set.show_cursor

\* ObjectImpl::property: the value read for a property name.
property(set, name) ==
    CASE name = "fps" -> set.fps
      [] name = "show-cursor" -> set.show_cursor
      [] name = "perform-internal-preroll" -> set.perform_internal_preroll

\* The record of a set_property or property call.
PropertyCall(op, name, value) ==
    [Call(op, "Ok", "none", None, << >>)
        EXCEPT !.prop = Some([name |-> name, value |-> value])]

\* ObjectImpl::property called by the host.
GetProperty ==
    /\ ~panicked
    /\ \E name \in PropertyNames :
         last' = PropertyCall("property", name, property(settings, name))
    /\ UNCHANGED <<threads, settings, capturer, state, blocksize, lifecycle, panicked,
                   clock, cycle>>

\* ObjectImpl::set_property, one arm per property.
SetFps ==
    /\ ~panicked
    /\ \E new_fps \in FpsValues :
         /\ settings' = [settings EXCEPT !.fps = new_fps]
         /\ last' = PropertyCall("set_property", "fps", new_fps)
    /\ UNCHANGED <<threads, capturer, state, blocksize, lifecycle, panicked, clock, cycle>>

SetShowCursor ==
    /\ ~panicked
    /\ \E new_show_cursor \in BOOLEAN :
         /\ settings' = [settings EXCEPT !.show_cursor = new_show_cursor]
         /\ last' = PropertyCall("set_property", "show-cursor", new_show_cursor)
    /\ UNCHANGED <<threads, capturer, state, blocksize, lifecycle, panicked, clock, cycle>>

SetPerformInternalPreroll ==
    /\ ~panicked
    /\ \E new_perf_internal_preroll \in BOOLEAN :
         /\ settings' = [settings EXCEPT
                            !.perform_internal_preroll = new_perf_internal_preroll]
         /\ last' = PropertyCall("set_property", "perform-internal-preroll",
                                 new_perf_internal_preroll)
    /\ UNCHANGED <<threads, capturer, state, blocksize, lifecycle, panicked, clock, cycle>>

\* change_state(NullToReady) and change_state(ReadyToNull): no arm of the
\* element's own.
NullToReady ==
    /\ ~panicked
    /\ lifecycle = "Null"
    /\ lifecycle' = "Ready"
    /\ last' = Call("change_state", "Ok", "none", None, << >>)
    /\ UNCHANGED <<threads, settings, capturer, state, blocksize, panicked, clock, cycle>>

ReadyToNull ==
    /\ ~panicked
    /\ lifecycle = "Ready"
    /\ lifecycle' = "Null"
    /\ last' = Call("change_state", "Ok", "none", None, << >>)
    /\ UNCHANGED <<threads, settings, capturer, state, blocksize, panicked, clock, cycle>>

\* What the preroll's get_next_frame can return; start pulls nothing without
\* perform_internal_preroll or without a built Capturer.
Pulls(F, set, build_ok) ==
    IF build_ok /\ set.perform_internal_preroll THEN NextFrames(F, 0) ELSE {None}

\* The consumer's answers to a proposal made for the frame pulled: it is asked
\* nothing when no frame was pulled.
Answers(got) == IF got = None THEN {TRUE} ELSE BOOLEAN

\* change_state(ReadyToPaused): the base class activates the pad, which calls
\* start; the transition succeeds (NoPreroll) when start does.
ReadyToPaused(F) ==
    /\ ~panicked
    /\ lifecycle = "Ready"
    /\ \E build_ok \in BOOLEAN :
       \E got \in Pulls(F, settings, build_ok) :
       \E accept \in Answers(got) :
       \E r \in {start(capturer, settings, state, blocksize,
                       build_ok, got, accept)} :
         LET pulled == build_ok /\ settings.perform_internal_preroll /\ got # None
         IN /\ capturer' = r.capturer
            /\ state' = r.state
            /\ blocksize' = r.blocksize
            /\ panicked' = r.panic
            /\ lifecycle' = IF r.res = "Ok" THEN "Paused" ELSE "Ready"
            /\ clock' = IF pulled THEN got[1].display_time ELSE 0
            /\ last' = [Call("start", r.res, "none", IF pulled THEN got ELSE None,
                             r.proposals)
                          EXCEPT !.dropped = r.dropped,
                                 !.accepted = r.proposals = << >> \/ accept]
            /\ cycle' = [NoCycle EXCEPT
                            !.pulled = IF pulled THEN {got[1].display_time} ELSE {},
                            !.preroll = IF r.res = "Ok" /\ pulled THEN got ELSE None]
    /\ UNCHANGED <<threads, settings>>

\* change_state(PausedToPlaying): start_capture on the handle.
PausedToPlaying ==
    /\ ~panicked
    /\ lifecycle = "Paused"
    /\ capturer # None => Len(capturer[1].calls) < MaxCalls
    /\ LET r == start_capture(capturer)
       IN /\ capturer' = r.capturer
          /\ lifecycle' = IF r.res = "Ok" THEN "Playing" ELSE "Paused"
          /\ last' = Call("change_state", r.res, "none", None, << >>)
    /\ UNCHANGED <<threads, settings, state, blocksize, panicked, clock, cycle>>

\* change_state(PlayingToPaused): no arm of the element's own.
PlayingToPaused ==
    /\ ~panicked
    /\ lifecycle = "Playing"
    /\ lifecycle' = "Paused"
    /\ last' = Call("change_state", "Ok", "none", None, << >>)
    /\ UNCHANGED <<threads, settings, capturer, state, blocksize, panicked, clock, cycle>>

\* change_state(PausedToReady): the base class deactivates the pad, which
\* calls stop.  The element is in Ready afterwards whatever stop reports.
PausedToReady ==
    /\ ~panicked
    /\ lifecycle = "Paused"
    /\ LET r == stop(capturer)
       IN /\ capturer' = r.capturer
          /\ last' = [Call("stop", r.res, "none", None, << >>)
                         EXCEPT !.dropped = r.dropped]
    /\ lifecycle' = "Ready"
    /\ cycle' = [cycle EXCEPT !.preroll = None]
    /\ UNCHANGED <<threads, settings, state, blocksize, panicked, clock>>

\* stop called once more by the host while the element is already in Ready.
StopAgain ==
    /\ ~panicked
    /\ lifecycle = "Ready"
    /\ LET r == stop(capturer)
       IN /\ capturer' = r.capturer
          /\ last' = [Call("stop", r.res, "none", None, << >>)
                         EXCEPT !.dropped = r.dropped]
    /\ cycle' = [cycle EXCEPT !.preroll = None]
    /\ UNCHANGED <<threads, settings, state, blocksize, lifecycle, panicked, clock>>

\* BaseSrcImpl::set_caps called by the base class's own negotiation, with the
\* caps it fixed.
SetCaps(C) ==
    /\ ~panicked
    /\ lifecycle \in {"Paused", "Playing"}
    /\ \E caps \in C :
       \E r \in {set_caps(state, blocksize, caps)} :
            /\ state' = r.state
            /\ blocksize' = r.blocksize
            /\ last' = Call("set_caps", IF r.ok THEN "Ok" ELSE "Error", "none",
                            None, <<caps>>)
    /\ cycle' = [cycle EXCEPT !.preroll = None]
    /\ UNCHANGED <<threads, settings, capturer, lifecycle, panicked, clock>>

\* The build's profiles: overflow checks on (the subtraction panics) or off (it
\* wraps).  With base_time = 0 the subtraction cannot overflow.
Profiles(st) == IF st.base_time = 0 THEN {TRUE} ELSE BOOLEAN

\* PushSrcImpl::create, called by the streaming thread.  With a handle, the
\* call returns once the running backend delivers a frame or fails.  checks is
\* the build's profile: u64 overflow panics, or wraps.
Create(F) ==
    /\ ~panicked
    /\ capturer # None => Running(capturer[1])
    /\ \E got \in (IF capturer = None THEN {None} ELSE NextFrames(F, clock)),
          checks \in Profiles(state) :
       \E accept \in (IF state.info = None THEN {TRUE} ELSE Answers(got)) :
       \E r \in {create(capturer, state, blocksize, checks, got, accept)} :
         LET pulled == capturer # None /\ got # None
         IN /\ state' = r.state
            /\ blocksize' = r.blocksize
            /\ panicked' = r.panic
            /\ clock' = IF pulled THEN got[1].display_time ELSE clock
            /\ last' = [Call("create", r.res, r.msg, IF pulled THEN got ELSE None,
                             r.proposals)
                          EXCEPT !.out = r.out, !.prev = cycle.cur,
                                 !.accepted = r.proposals = << >> \/ accept]
            /\ cycle' = [cycle EXCEPT
                  !.pulled = IF pulled THEN @ \cup {got[1].display_time} ELSE @,
                  !.cur = IF r.res = "Ok" THEN r.out ELSE @,
                  !.preroll = None]
    /\ UNCHANGED <<threads, settings, capturer, lifecycle>>

(* ------------------------------------------------------------------ *)
(* The same entry points statement by statement, with the mutexes: a    *)
(* thread stands at a pc between two steps, and a step that locks a     *)
(* mutex waits until no thread holds it (std::sync::Mutex is not        *)
(* reentrant).  These steps leave the histories last and cycle alone.   *)
(* ------------------------------------------------------------------ *)

Holds(t, mu) == \E i \in 1..Len(threads[t].held) : threads[t].held[i] = mu

Free(mu) == \A t \in Threads : ~Holds(t, mu)

\* Thread t moves to pc, holding held, with frame and new_capturer in hand.
At(t, pc, held, frame, new_capturer) ==
    [threads EXCEPT ![t] = [pc |-> pc, held |-> held, frame |-> frame,
                            new_capturer |-> new_capturer, ret |-> "idle"]]

\* Thread t returns from its call: its guards go out of scope.
Return(t) == [threads EXCEPT ![t] = Idle]

\* drop(state) as it would be if the statement were missing.
DropNothing(held) == held

\* drop(state) in ensure_correct_format, before self.obj().set_caps.
DropState(held) == SelectSeq(held, LAMBDA mu : mu # "state")

\* drop(settings) as it would be if the statement were missing.
KeepSettings(held) == held

\* drop(settings) in start, before self.obj().set_caps.
DropSettings(held) == SelectSeq(held, LAMBDA mu : mu # "settings")

\* create, first statement: lock the capturer mutex; the guard lives to the end
\* of create.  Without a Capturer create returns NotNegotiated at once.
TCreateLock ==
    /\ ~panicked
    /\ threads["stream"].pc = "idle"
    /\ lifecycle \in {"Paused", "Playing"}
    /\ Free("capturer")
    /\ threads' = IF capturer = None THEN Return("stream")
                  ELSE At("stream", "create_get_next_frame", <<"capturer">>,
                          None, None)
    /\ UNCHANGED <<settings, capturer, state, blocksize, lifecycle, panicked,
                   clock, last, cycle>>

\* create: cap.get_next_frame(), which delivers nothing before the backend
\* runs, and FrameInfo::new.  A failure of either returns Error.
TCreateGetNextFrame(F) ==
    /\ ~panicked
    /\ threads["stream"].pc = "create_get_next_frame"
    /\ Running(capturer[1])
    /\ \E got \in NextFrames(F, clock) :
         /\ threads' = IF got = None \/ FrameInfoNew(got[1]) = None
                       THEN Return("stream")
                       ELSE At("stream", "ensure_lock_state",
                               threads["stream"].held, got, None)
         /\ clock' = IF got = None THEN clock ELSE got[1].display_time
    /\ UNCHANGED <<settings, capturer, state, blocksize, lifecycle, panicked,
                   last, cycle>>

\* ensure_correct_format up to the proposal: lock state, compare, and either
\* return (the guard goes out of scope) or drop(state) and go on to set_caps.
TEnsureLockState ==
    /\ ~panicked
    /\ threads["stream"].pc = "ensure_lock_state"
    /\ Free("state")
    /\ LET me == threads["stream"]
           frame_info == FrameInfoNew(me.frame[1])[1]
           locked == Append(me.held, "state")
       IN threads' =
            IF state.info = None THEN Return("stream")
            ELSE IF FormatDiffers(state, frame_info)
            THEN IF VideoInfoBuild(frame_info.gst_v_format, frame_info.width,
                                   frame_info.height) = None
                 THEN Return("stream")
                 ELSE At("stream", "ensure_set_caps", DropState(locked),
                         me.frame, None)
            ELSE At("stream", "create_lock_state", me.held, me.frame, None)
    /\ UNCHANGED <<settings, capturer, state, blocksize, lifecycle, panicked,
                   clock, last, cycle>>

\* self.obj().set_caps from ensure_correct_format: the base class runs the
\* element's set_caps on this thread, which locks state.
TEnsureSetCaps ==
    /\ ~panicked
    /\ threads["stream"].pc = "ensure_set_caps"
    /\ Free("state")
    /\ LET me == threads["stream"]
           frame_info == FrameInfoNew(me.frame[1])[1]
           new_caps == ToCaps(VideoInfoBuild(frame_info.gst_v_format,
                                  frame_info.width, frame_info.height)[1])
           r == set_caps(state, blocksize, new_caps)
       IN /\ state' = r.state
          /\ blocksize' = r.blocksize
          /\ threads' = At("stream", "ensure_push_caps", me.held, me.frame, None)
    /\ UNCHANGED <<settings, capturer, lifecycle, panicked, clock, last, cycle>>

\* The caps event is with the consumer, which accepts or rejects; a rejection
\* makes ensure_correct_format, and create, return Error.
TEnsurePushCaps ==
    /\ ~panicked
    /\ threads["stream"].pc = "ensure_push_caps"
    /\ \E accept \in BOOLEAN :
         threads' = IF accept
                    THEN At("stream", "create_lock_state", threads["stream"].held,
                            threads["stream"].frame, None)
                    ELSE Return("stream")
    /\ UNCHANGED <<settings, capturer, state, blocksize, lifecycle, panicked,
                   clock, last, cycle>>

\* create, after ensure_correct_format: lock state, set the baseline, stamp the
\* buffer and return it.
TCreateLockState ==
    /\ ~panicked
    /\ threads["stream"].pc = "create_lock_state"
    /\ Free("state")
    /\ \E checks \in Profiles(state) :
         LET t == Stamp(state, FrameInfoNew(threads["stream"].frame[1])[1], checks)
         IN /\ state' = t.state
            /\ panicked' = t.panic
    /\ threads' = Return("stream")
    /\ UNCHANGED <<settings, capturer, blocksize, lifecycle, clock, last, cycle>>

\* change_state(PausedToPlaying), first statement: parent_change_state; the
\* transition is under way.
TPlayingRequest ==
    /\ ~panicked
    /\ threads["app"].pc = "idle"
    /\ lifecycle = "Paused"
    /\ capturer # None => Len(capturer[1].calls) < MaxCalls
    /\ threads' = At("app", "playing_lock", << >>, None, None)
    /\ UNCHANGED <<settings, capturer, state, blocksize, lifecycle, panicked,
                   clock, last, cycle>>

\* change_state(PausedToPlaying), the element's arm: lock the capturer mutex,
\* start_capture (or fail without a Capturer), return.
TPlayingLock ==
    /\ ~panicked
    /\ threads["app"].pc = "playing_lock"
    /\ Free("capturer")
    /\ LET r == start_capture(capturer)
       IN /\ capturer' = r.capturer
          /\ lifecycle' = IF r.res = "Ok" THEN "Playing" ELSE "Paused"
    /\ threads' = Return("app")
    /\ UNCHANGED <<settings, state, blocksize, panicked, clock, last, cycle>>

\* start, first statement: lock the capturer mutex.
TStartLockCapturer ==
    /\ ~panicked
    /\ threads["app"].pc = "idle"
    /\ lifecycle = "Ready"
    /\ Free("capturer")
    /\ threads' = At("app", "start_lock_settings", <<"capturer">>, None, None)
    /\ UNCHANGED <<settings, capturer, state, blocksize, lifecycle, panicked,
                   clock, last, cycle>>

\* start, second statement: lock the settings mutex.
TStartLockSettings ==
    /\ ~panicked
    /\ threads["app"].pc = "start_lock_settings"
    /\ Free("settings")
    /\ threads' = At("app", "start_build", Append(threads["app"].held, "settings"),
                     None, None)
    /\ UNCHANGED <<settings, capturer, state, blocksize, lifecycle, panicked,
                   clock, last, cycle>>

\* start with both mutexes held: take the old Capturer, build the new one and,
\* with perform_internal_preroll, start it, pull and translate a frame, build
\* its info and drop(settings).  Without preroll start stores the Capturer and
\* returns.
TStartBuild(F) ==
    /\ ~panicked
    /\ threads["app"].pc = "start_build"
    /\ \E build_ok \in BOOLEAN :
       \E got \in Pulls(F, settings, build_ok) :
         LET me == threads["app"]
             built == BackendBuild(settings)
             prerolled == build_ok /\ settings.perform_internal_preroll
                             /\ got # None /\ FrameInfoNew(got[1]) # None
         IN /\ capturer' = IF build_ok /\ ~settings.perform_internal_preroll
                           THEN Some(built) ELSE None
            /\ lifecycle' = IF build_ok /\ ~settings.perform_internal_preroll
                            THEN "Paused" ELSE "Ready"
            /\ panicked' = (build_ok /\ settings.perform_internal_preroll
                               /\ got # None /\ FrameInfoNew(got[1]) = None)
            /\ clock' = IF got = None THEN 0 ELSE got[1].display_time
            /\ threads' = IF prerolled
                          THEN At("app", "start_set_caps", DropSettings(me.held),
                                  got, Some(BackendCall(built, "start")))
                          ELSE Return("app")
    /\ UNCHANGED <<settings, state, blocksize, last, cycle>>

\* self.obj().set_caps from start: the base class runs the element's set_caps
\* on this thread, which locks state.
TStartSetCaps ==
    /\ ~panicked
    /\ threads["app"].pc = "start_set_caps"
    /\ Free("state")
    /\ LET me == threads["app"]
           frame_info == FrameInfoNew(me.frame[1])[1]
           caps == ToCaps(VideoInfoBuild(frame_info.gst_v_format,
                              frame_info.width, frame_info.height)[1])
           r == set_caps(state, blocksize, caps)
       IN /\ state' = r.state
          /\ blocksize' = r.blocksize
          /\ threads' = At("app", "start_push_caps", me.held, me.frame,
                           me.new_capturer)
    /\ UNCHANGED <<settings, capturer, lifecycle, panicked, clock, last, cycle>>

\* The caps event of the preroll is with the consumer; a rejection makes the
\* unwrap in start panic.
TStartPushCaps ==
    /\ ~panicked
    /\ threads["app"].pc = "start_push_caps"
    /\ \E accept \in BOOLEAN :
         /\ panicked' = ~accept
         /\ threads' = IF accept
                       THEN At("app", "start_lock_state", threads["app"].held,
                               threads["app"].frame, threads["app"].new_capturer)
                       ELSE Return("app")
    /\ UNCHANGED <<settings, capturer, state, blocksize, lifecycle, clock, last,
                   cycle>>

\* start, after the proposal: lock state, set the baseline, store the Capturer
\* and return.
TStartLockState ==
    /\ ~panicked
    /\ threads["app"].pc = "start_lock_state"
    /\ Free("state")
    /\ state' = [state EXCEPT
                   !.base_time = FrameInfoNew(threads["app"].frame[1])[1].pts]
    /\ capturer' = threads["app"].new_capturer
    /\ lifecycle' = "Paused"
    /\ threads' = Return("app")
    /\ UNCHANGED <<settings, blocksize, panicked, clock, last, cycle>>

\* stop under change_state(PausedToReady): lock the capturer mutex, take the
\* Capturer, stop it, return.
TStop ==
    /\ ~panicked
    /\ threads["app"].pc = "idle"
    /\ lifecycle = "Paused"
    /\ Free("capturer")
    /\ capturer' = stop(capturer).capturer
    /\ lifecycle' = "Ready"
    /\ UNCHANGED <<settings, state, blocksize, panicked, clock, last, cycle,
                   threads>>

\* query for caps, entered: the app thread asks between its calls; the
\* consumer asks on the thread that sent it a caps event, while that thread is
\* inside self.obj().set_caps with what it holds.
TQueryEnter(t) ==
    /\ ~panicked
    /\ \/ t = "app" /\ threads[t].pc = "idle"
       \/ threads[t].pc \in {"ensure_push_caps", "start_push_caps"}
    /\ threads' = [threads EXCEPT ![t].pc = "query_lock_settings",
                                  ![t].ret = threads[t].pc]
    /\ UNCHANGED <<settings, capturer, state, blocksize, lifecycle, panicked,
                   clock, last, cycle>>

\* query, first statement: lock settings.  Without perform_internal_preroll
\* the guard is dropped and the query goes to the base class; the record of
\* the call names the frame the thread has in hand.
TQueryLockSettings(t) ==
    /\ ~panicked
    /\ threads[t].pc = "query_lock_settings"
    /\ Free("settings")
    /\ IF settings.perform_internal_preroll
       THEN /\ threads' = [threads EXCEPT
                              ![t].pc = "query_lock_state",
                              ![t].held = Append(@, "settings")]
            /\ UNCHANGED last
       ELSE /\ threads' = [threads EXCEPT ![t].pc = threads[t].ret,
                                          ![t].ret = "idle"]
            /\ last' = Call("query", query(settings, state).kind, "none",
                            threads[t].frame, << >>)
    /\ UNCHANGED <<settings, capturer, state, blocksize, lifecycle, panicked,
                   clock, cycle>>

\* query with perform_internal_preroll, holding settings: lock state, answer
\* from state.info and return; both guards go out of scope.
TQueryLockState(t) ==
    /\ ~panicked
    /\ threads[t].pc = "query_lock_state"
    /\ Free("state")
    /\ threads' = [threads EXCEPT
                     ![t].pc = threads[t].ret,
                     ![t].ret = "idle",
                     ![t].held = SubSeq(@, 1, Len(@) - 1)]
    /\ last' = Call("query", query(settings, state).kind, "none",
                    threads[t].frame, << >>)
    /\ UNCHANGED <<settings, capturer, state, blocksize, lifecycle, panicked,
                   clock, cycle>>

\* The mutex the next statement of thread t locks, if t stands before a lock
\* statement inside a call.
Wants(t) ==
    LET pc == threads[t].pc
    IN IF pc = "playing_lock" THEN Some("capturer")
       ELSE IF pc \in {"start_lock_settings", "query_lock_settings"}
       THEN Some("settings")
       ELSE IF pc \in {"ensure_lock_state", "ensure_set_caps", "create_lock_state",
                       "start_set_caps", "start_lock_state", "query_lock_state"}
       THEN Some("state")
       ELSE None

\* The calls the host makes between the app thread's other calls.
TNullToReady == threads["app"].pc = "idle" /\ NullToReady

TReadyToNull == threads["app"].pc = "idle" /\ ReadyToNull

TPlayingToPaused == threads["app"].pc = "idle" /\ PlayingToPaused

TSetPerformInternalPreroll ==
    /\ threads["app"].pc = "idle"
    /\ Free("settings")
    /\ SetPerformInternalPreroll

\* The base class's negotiation on the streaming thread, between two creates.
TSetCaps(C) ==
    /\ threads["stream"].pc = "idle"
    /\ Free("state")
    /\ SetCaps(C)

(* ------------------------------------------------------------------ *)
(* Specifications.  All run the same entry points; they differ in the   *)
(* frames the backend delivers and the caps the host fixes.             *)
(* ------------------------------------------------------------------ *)

Lifecycle ==
    \/ NullToReady
    \/ ReadyToNull
    \/ PausedToPlaying
    \/ PlayingToPaused
    \/ PausedToReady
    \/ StopAgain
    \/ SetPerformInternalPreroll

\* Every size, one capture timestamp; tags of two layouts, the tag that
\* aliases onto one of them and an unsupported tag.
FormatFrames ==
    {f \in Frames : f.display_time = 0
                     /\ f.tag \in {"RGB", "BGRx", "BGR0", "YUVFrame"}}

FormatCaps == {c \in TemplateCaps : c.format \in {"RGB", "BGRx"}}

NextFormat ==
    \/ Lifecycle
    \/ ReadyToPaused(FormatFrames)
    \/ SetCaps(FormatCaps)
    \/ Create(FormatFrames)

SpecFormat == Init /\ [][NextFormat]_vars

\* Every capture timestamp, frames of one size in a supported and an
\* unsupported tag.
ClockFrames ==
    {f \in Frames : f.tag \in {"BGR0", "YUVFrame"} /\ f.width = 1 /\ f.height = 1}

ClockCaps == {c \in TemplateCaps : c.width = 1 /\ c.height = 1
                                   /\ c.format \in {"BGRx", "RGB"}}

NextClock ==
    \/ Lifecycle
    \/ ReadyToPaused(ClockFrames)
    \/ SetCaps(ClockCaps)
    \/ Create(ClockFrames)

SpecClock == Init /\ [][NextClock]_vars

\* Every setting and every pixel tag, frames of one size and capture
\* timestamp.
SettingsFrames ==
    {f \in Frames : f.width = 1 /\ f.height = 1 /\ f.display_time = 0}

NextSettings ==
    \/ Lifecycle
    \/ SetFps
    \/ SetShowCursor
    \/ GetProperty
    \/ ReadyToPaused(SettingsFrames)
    \/ SetCaps(ClockCaps)
    \/ Create(SettingsFrames)

SpecSettings == Init /\ [][NextSettings]_vars

\* The statement-level steps, frames of one size and capture timestamp in two
\* layouts.
ThreadFrames ==
    {f \in Frames : f.tag \in {"RGB", "BGR0"} /\ f.width = 1 /\ f.height = 1
                     /\ f.display_time = 0}

\* The steps that take the streaming thread on from inside create.
StreamContinue ==
    \/ TCreateGetNextFrame(ThreadFrames)
    \/ TEnsureLockState
    \/ TEnsureSetCaps
    \/ TEnsurePushCaps
    \/ TCreateLockState
    \/ TQueryLockSettings("stream")
    \/ TQueryLockState("stream")

\* The steps that take the app thread on from inside change_state or start.
AppContinue ==
    \/ TPlayingLock
    \/ TStartLockSettings
    \/ TStartBuild(ThreadFrames)
    \/ TStartSetCaps
    \/ TStartPushCaps
    \/ TStartLockState
    \/ TQueryLockSettings("app")
    \/ TQueryLockState("app")

NextThreads ==
    \/ TNullToReady
    \/ TReadyToNull
    \/ TSetPerformInternalPreroll
    \/ TStartLockCapturer
    \/ TPlayingRequest
    \/ TPlayingToPaused
    \/ TStop
    \/ TQueryEnter("app")
    \/ TQueryEnter("stream")
    \/ TSetCaps(ClockCaps)
    \/ TCreateLock
    \/ StreamContinue
    \/ AppContinue

SpecThreads == Init /\ [][NextThreads]_vars

\* A thread inside a call goes on whenever it can: a step that waits for
\* nothing is taken, and a thread that waits for a mutex gets it if the mutex
\* is free again and again.
SpecThreadsFair ==
    /\ SpecThreads
    /\ WF_vars(StreamContinue)
    /\ SF_vars(AppContinue)

(* ------------------------------------------------------------------ *)
(* Properties                                                           *)
(* ------------------------------------------------------------------ *)

\* The last call pulled a frame that has a layout.
Translated(call) == call.frame # None /\ Layout(call.frame[1].tag) # None

\* The last call was a create that returned a buffer.
Produced == last.op = "create" /\ last.res = "Ok"

\* C1: within one start cycle the output timestamps of the buffers produced
\* are non-decreasing and the first one is exactly 0 (the backend's capture
\* timestamps being non-decreasing, as NextFrames delivers them).
C1_ZeroBasedNonDecreasing ==
    Produced =>
        IF last.prev = None THEN last.out = Some(0)
        ELSE last.prev[1] <= last.out[1]

\* C2: the baseline a production call of a cycle uses is a capture timestamp
\* of a frame pulled in that cycle, whatever the cycles before it pulled.
C2_BaselineOfThisCycle ==
    Produced => state.base_time \in cycle.pulled

\* C3: with a negotiated format, a frame that differs from it in layout,
\* width or height makes the production call send exactly one proposal to the
\* consumer, and the buffer is returned only under the frame's format; a frame
\* that equals it makes the call send none.
C3_DriftProposesOnce ==
    (last.op = "create" /\ last.had_info /\ Translated(last)) =>
        /\ IF last.matched THEN last.proposals = << >>
           ELSE Len(last.proposals) = 1
        /\ last.res = "Ok" => Matches(state, last.frame[1])

C3_Renegotiated ==
    /\ Produced
    /\ last.had_info /\ ~last.matched
    /\ Len(last.proposals) = 1

\* C4, as stated: without a negotiated format, a production call that observes
\* a translated frame proposes the frame's (layout, width, height) to the
\* consumer, as it does when the negotiated format differs.
C4_AbsentFormatProposes ==
    (last.op = "create" /\ Translated(last) /\ ~last.had_info) =>
        /\ Len(last.proposals) = 1
        /\ Described(last.proposals[1]) = Observed(last.frame[1])

\* C4, amended: without a negotiated format, a production call that observes
\* a translated frame proposes nothing, fails with NotNegotiated, returns no
\* buffer and leaves the format absent; the frame's (layout, width, height) is
\* proposed only when a negotiated format exists and differs from it.
C4_AbsentFormatNotNegotiated ==
    (last.op = "create" /\ Translated(last)) =>
        /\ ~last.had_info =>
              /\ last.res = "NotNegotiated"
              /\ last.proposals = << >>
              /\ last.out = None
              /\ state.info = None
        /\ (last.had_info /\ ~last.matched) =>
              /\ Len(last.proposals) = 1
              /\ Described(last.proposals[1]) = Observed(last.frame[1])

C4_FrameWithoutFormat ==
    /\ last.op = "create" /\ Translated(last)
    /\ ~last.had_info
    /\ last.res = "NotNegotiated"

\* A call ended by returning a failure value to its caller.
ReturnedFailure(call) ==
    call.res \in {"Error", "NotNegotiated", "InitError", "ShutdownError",
                  "StateChangeError"}

\* C5: a frame with an unsupported pixel tag makes the call that pulled it, a
\* production call or the preroll of Ready -> Paused, return a failure value
\* (with the unsupported-format element error, in create) and no buffer.
C5_UnsupportedYieldsFailure ==
    (last.op \in {"create", "start"} /\ last.frame # None
        /\ Layout(last.frame[1].tag) = None) =>
        /\ ReturnedFailure(last)
        /\ last.out = None
        /\ last.op = "create" => last.msg = "ResourceError::Failed"

\* C6: between lifecycle transitions the backend handle is present exactly in
\* Paused and Playing; it is absent in Null and Ready, also after a start that
\* failed.
C6_HandleIffStreaming ==
    (capturer # None) <=> (lifecycle \in {"Paused", "Playing"})

C6_FailedStart ==
    /\ last.op = "start" /\ last.res = "InitError"
    /\ last.dropped # << >>
    /\ lifecycle = "Ready" /\ capturer = None

Handles == {capturer[i] : i \in 1..Len(capturer)}
               \cup {last.dropped[i] : i \in 1..Len(last.dropped)}

IsPrefix(s, t) == Len(s) <= Len(t) /\ \A i \in 1..Len(s) : s[i] = t[i]

\* C8: the calls the element makes on one backend handle are a prefix of
\* build, start, stop: start once, stop only on a handle that was started.
C8_CallsInOrder ==
    \A c \in Handles : IsPrefix(c.calls, <<"build", "start", "stop">>)

\* C9: a stop that finds no handle does not crash, reports ShutdownError and
\* leaves the handle absent; a stop that finds one stops that backend, removes
\* the handle and reports success.
C9_StopWithAndWithoutHandle ==
    last.op = "stop" =>
        /\ capturer = None
        /\ ~panicked
        /\ IF last.had_capturer
           THEN /\ last.res = "Ok"
                /\ Len(last.dropped) = 1
                /\ last.dropped[1].calls[Len(last.dropped[1].calls)] = "stop"
           ELSE /\ last.res = "ShutdownError"
                /\ last.dropped = << >>

\* A stop without a handle, after a cycle that streamed and was stopped.
C9_StopAfterStop ==
    /\ last.op = "stop" /\ ~last.had_capturer
    /\ last.res = "ShutdownError"
    /\ lifecycle = "Ready" /\ state.info # None

\* C10: two production calls that fail for different reasons out of backend
\* read failure, unsupported layout, rejected proposal and missing backend
\* return different values, and no failure is returned as success.
C10_FailuresDiffer ==
    [][(Cause(last) # "none" /\ Cause(last') # "none"
            /\ Cause(last) # Cause(last'))
        => last.res # last'.res]_vars

\* C11: setting a property while a backend handle exists changes no outcome
\* of the running cycle: a format query answers after the set as it answered
\* before it.
C11_SetWhileStreamingUnobserved ==
    [][(last'.op = "set_property" /\ capturer # None)
        => query(settings', state') = query(settings, state)]_vars

\* C12: a fresh element reads fps = 25, show-cursor = true and
\* perform-internal-preroll = false; a set of a property makes that property
\* read the value set and leaves what the other two read; no other call
\* changes what a property reads, and a read returns what the property reads.
C12_PropertyRoundTrip ==
    /\ property(settings, "fps") = 25
    /\ property(settings, "show-cursor") = TRUE
    /\ property(settings, "perform-internal-preroll") = FALSE
    /\ [][\A name \in PropertyNames :
            IF last'.op = "set_property" /\ last'.prop[1].name = name
            THEN property(settings', name) = last'.prop[1].value
            ELSE /\ property(settings', name) = property(settings, name)
                 /\ (last'.op = "property" /\ last'.prop[1].name = name)
                       => last'.prop[1].value = property(settings, name)]_vars

\* fps = 30 was just read back after show-cursor was set to false.
C12_ReadBack ==
    /\ last.op = "property"
    /\ last.prop = Some([name |-> "fps", value |-> OtherFps])
    /\ ~settings.show_cursor

\* C17: when a production call returns a buffer, the negotiated format's
\* (layout, width, height) is that of the buffer's frame; if the call proposed
\* a format, the consumer accepted it and the negotiated format is the
\* proposed one.
C17_BufferUnderItsFormat ==
    Produced =>
        /\ state.info # None
        /\ Negotiated(state.info[1]) = Observed(last.frame[1])
        /\ last.proposals # << >> =>
              /\ last.accepted
              /\ Negotiated(state.info[1]) = Described(last.proposals[1])

C17_AcceptedAlias ==
    /\ Produced
    /\ last.proposals # << >> /\ last.accepted
    /\ last.frame[1].tag = "BGR0"
    /\ Negotiated(state.info[1]) = <<"BGRX", last.frame[1].width, last.frame[1].height>>

\* C18: a production call whose proposal the consumer rejects fails, returns
\* no buffer and leaves the negotiated format and the baseline as they were
\* before the call.
C18_RejectionChangesNothing ==
    [][Cause(last') = "NegotiationError"
        => /\ last'.res = "Error"
           /\ last'.out = None
           /\ state'.info = state.info
           /\ state'.base_time = state.base_time]_vars

\* C19: a production call that returns the first buffer of a cycle in which
\* no frame was pulled before sets the baseline to the frame's capture
\* timestamp and stamps the buffer 0; one that returns a later buffer of the
\* cycle leaves the baseline alone and stamps the buffer with the capture
\* timestamp minus the baseline.
C19_BaselineAssignedOnce ==
    [][(last'.op = "create" /\ last'.res = "Ok")
        => /\ (cycle.cur = None /\ cycle.pulled = {}) =>
                 /\ state'.base_time = last'.frame[1].display_time
                 /\ last'.out = Some(0)
           /\ cycle.cur # None =>
                 /\ state'.base_time = state.base_time
                 /\ last'.out = Some(last'.frame[1].display_time - state.base_time)]_vars

\* C20: a backend the element created and started is stopped before the
\* element drops it, also when the preroll of Ready -> Paused fails; the
\* element keeps no handle after the failed start.
C20_StartedBackendsStopped ==
    /\ \A i \in 1..Len(last.dropped) :
          LET calls == last.dropped[i].calls
          IN (\E j \in 1..Len(calls) : calls[j] = "start")
                => calls[Len(calls)] = "stop"
    /\ (last.op = "start" /\ last.res # "Ok") => capturer = None

\* C13: a Paused -> Playing transition requested while a backend handle
\* exists comes to its end with the backend started, whatever the streaming
\* thread does meanwhile.
C13_PlayingIsReached ==
    (threads["app"].pc = "playing_lock" /\ capturer # None)
        ~> (threads["app"].pc = "idle" /\ lifecycle = "Playing")

\* A thread is inside self.obj().set_caps, the call that sends a format
\* proposal to the consumer and may come back into the element.
Proposing(t) ==
    threads[t].pc \in {"ensure_set_caps", "ensure_push_caps",
                       "start_set_caps", "start_push_caps"}

\* C14: a thread that is sending a format proposal, from create or from the
\* preroll of start, holds none of the element's mutexes.
C14_NoLockWhileProposing ==
    \A t \in Threads : Proposing(t) => threads[t].held = << >>

\* C15: while the production path is sending a format proposal, the state
\* mutex is not held, by the streaming thread or any other, so set_caps and a
\* caps query coming back from the consumer can lock it.
C15_StateLockFreeWhileProposing ==
    (\/ threads["stream"].pc \in {"ensure_set_caps", "ensure_push_caps"}
     \/ threads["stream"].ret = "ensure_push_caps") =>
        /\ ~Holds("stream", "state")
        /\ Free("state")

\* The consumer's caps query was answered from state while create was
\* sending the proposal.
C15_QueriedBack ==
    /\ threads["stream"].pc = "ensure_push_caps"
    /\ last.op = "query" /\ last.res = "caps"
    /\ last.frame # None /\ last.frame = threads["stream"].frame

\* Position of mutex mu in the order thread t locked what it holds.
LockedAt(t, mu) == CHOOSE i \in 1..Len(threads[t].held) : threads[t].held[i] = mu

\* C16: a thread that holds the settings mutex and the capturer mutex locked
\* settings first.
C16_SettingsBeforeCapturer ==
    \A t \in Threads :
        (Holds(t, "settings") /\ Holds(t, "capturer"))
            => LockedAt(t, "settings") < LockedAt(t, "capturer")

\* C22: the u64 subtraction pts - base_time in create never underflows: when
\* a production call reaches it, after the baseline was set or kept, the
\* baseline is at most the capture timestamp of the frame in hand, over any
\* start/stop cycles whose backends each deliver non-decreasing capture
\* timestamps.
C22_SubtractionNeverUnderflows ==
    (last.op = "create" /\ last.res \in {"Ok", "Panic"})
        => state.base_time <= last.frame[1].display_time

\* The order in which the code takes the three mutexes.
Rank(mu) == IF mu = "capturer" THEN 1 ELSE IF mu = "settings" THEN 2 ELSE 3

\* C21: the lock acquisitions of all entry points, those of re-entrant calls
\* included, follow one order over the capturer, settings and state mutexes:
\* a thread holds its mutexes in that order and the mutex it waits for comes
\* after all it holds; so no set of threads is ever such that each waits for
\* a mutex held by a thread of the set.
C21_LockOrderAcyclic ==
    /\ \A t \in Threads :
          LET held == threads[t].held
          IN /\ \A i, j \in 1..Len(held) : i < j => Rank(held[i]) < Rank(held[j])
             /\ Wants(t) # None =>
                   \A i \in 1..Len(held) : Rank(held[i]) < Rank(Wants(t)[1])
    /\ ~\E S \in (SUBSET Threads) \ {{}} :
           \A t \in S : Wants(t) # None /\ \E u \in S : Holds(u, Wants(t)[1])

\* The consumer's caps query, made back on the streaming thread inside
\* create's proposal, holds the capturer and settings mutexes and is about to
\* lock state, while change_state waits for the capturer mutex.
C21_QueryInsideProposalContended ==
    /\ threads["stream"].pc = "query_lock_state"
    /\ threads["stream"].held = <<"capturer", "settings">>
    /\ threads["app"].pc = "playing_lock"

====
